---- MODULE Spec2Model ----
(***************************************************************************)
(* Model of atomic-batcher (src/src/lib.rs): Batcher<T> with the           *)
(* mpsc-channel completion signal.  One action per public operation        *)
(* (append, appendcb, Drop::drop) plus the moves of the external run       *)
(* function on the Sender it was handed (send, discard).                   *)
(***************************************************************************)
EXTENDS Integers, Sequences, FiniteSets, TLC

(* ---- bounds ---- *)
MaxSubs == 3      \* submissions (append/appendcb calls) per behaviour
MaxVal  == 1      \* longest Vec<T> passed to one submission
MaxSend == 2      \* messages queued in one completion channel

\* Batcher<T> is generic and never inspects an item, so every submission
\* brings items of its own: the i-th submission passes a vector of up to
\* MaxVal items numbered (i-1)*MaxVal+1 ..
Vals(i) == { [j \in 1..n |-> (i - 1) * MaxVal + j] : n \in 0..MaxVal }

\* fn(Result<(), &str>) values a caller passes to appendcb
Callbacks == {"cbA"}

None == 0

VARIABLES
  running,            \* Option<Receiver<()>>: None or the index of the run whose channel it reads
  pending_batch,      \* Vec<T>
  pending_callbacks,  \* Vec<fn>
  callbacks,          \* Vec<fn>, each entry tagged with the submission that passed it
                      \* (the histories below name a callback by that submission)
  chans,              \* one mpsc channel per run invocation: queued messages, Sender alive, Receiver alive,
                      \* and whether a send on it returned Err (refused)
  pc,                 \* owner's position: "live", "recv" (blocked in rx.recv()),
                      \* "returned" (self.drop() returned), "dropped" (fields destroyed)
  runs,               \* history: the batches handed to the run function, in order
  subs,               \* history: the submissions, in order
  batchOf,            \* history: for each submission, the run its items went to (0: none yet)
  invoked,            \* history: callback invocations, in order
  processed           \* history: the calls of done, each with the run it completes and the recv result

vars == <<running, pending_batch, pending_callbacks, callbacks, chans, pc,
          runs, subs, batchOf, invoked, processed>>

(* ---- std helpers, as the code uses them ---- *)

is_some(r) == r # None

\* Vec::extend
extend_front(v, val) == val \o v

extend(v, val) == v \o val

\* Vec::push
push_lost(v, x) == v

push_front(v, x) == <<x>> \o v

push(v, x) == Append(v, x)

\* Vec::drain(..).collect(): the whole content, leaving the vector empty
drain_collect_from1(v) == IF v = <<>> THEN v ELSE Tail(v)

drain_collect(v) == v

\* done's early return: nextbatch.is_empty() && self.callbacks.is_empty()
nothing_queued_or(nextbatch, cbs) == nextbatch = <<>> \/ cbs = <<>>

nothing_queued_never(nextbatch, cbs) == FALSE

nothing_queued(nextbatch, cbs) == nextbatch = <<>> /\ cbs = <<>>

\* Receiver::try_recv on channel c
try_recv_disconnected_ok(c) ==
  IF c.msgs > 0 \/ ~c.tx THEN "Ok" ELSE "Empty"

try_recv(c) ==
  IF c.msgs > 0 THEN "Ok"
  ELSE IF c.tx THEN "Empty" ELSE "Disconnected"

is_ok_always(r) == TRUE

is_ok(r) == r = "Ok"

\* Receiver::recv returns once a message is queued or every Sender is gone
recv_ready_at_once(c) == TRUE

recv_ready_on_message(c) == c.msgs > 0

recv_ready(c) == c.msgs > 0 \/ ~c.tx

recv(c) == IF c.msgs > 0 THEN "Ok" ELSE "Err"

\* the channel once its Receiver is dropped (self.running = None): what was
\* queued goes with it
closed_left_open(c) == c

closed(c) == [c EXCEPT !.msgs = 0, !.rx = FALSE]

\* mpsc::channel(): nothing queued, both ends alive; the Sender goes to the
\* run function, whose moves on it are the actions send and discard
channel == [msgs |-> 0, tx |-> TRUE, rx |-> TRUE, refused |-> FALSE]

(* ---- Batcher::new ---- *)
new ==
  /\ running = None
  /\ pending_batch = <<>>
  /\ pending_callbacks = <<>>
  /\ callbacks = <<>>

Init ==
  /\ new
  /\ chans = <<>>
  /\ pc = "live"
  /\ runs = <<>>
  /\ subs = <<>>
  /\ batchOf = <<>>
  /\ invoked = <<>>
  /\ processed = <<>>

(* ---- self.running = Some(recv); (self.run)(batch, send) ---- *)
\* cs, bo: channels and batch assignment as they stand when run is called
run_not_running(batch, cs, bo) ==
  /\ running' = None
  /\ runs' = Append(runs, batch)
  /\ chans' = Append(cs, channel)
  /\ batchOf' = [i \in 1..Len(bo) |-> IF bo[i] = 0 THEN Len(runs) + 1 ELSE bo[i]]

run(batch, cs, bo) ==
  /\ running' = Len(runs) + 1
  /\ runs' = Append(runs, batch)
  /\ chans' = Append(cs, channel)
  /\ batchOf' = [i \in 1..Len(bo) |-> IF bo[i] = 0 THEN Len(runs) + 1 ELSE bo[i]]

(* ---- Batcher::done ---- *)
\* err: the result passed; cbs, batch, pcs: self.callbacks, self.pending_batch
\* and self.pending_callbacks on entry; r: what the receive that led here returned
done_keeps_callbacks(err, cbs, batch, pcs, r, cs, bo) ==
  LET nextcbs   == drain_collect(pcs)
      nextbatch == drain_collect(batch)
  IN
  /\ invoked' = invoked \o
        [i \in 1..Len(cbs) |->
           [sub |-> cbs[i].sub, result |-> err, run |-> Len(runs), recv |-> r]]
  /\ processed' = Append(processed, [run |-> Len(runs), recv |-> r])
  /\ callbacks' = cbs
  /\ pending_callbacks' = <<>>
  /\ pending_batch' = <<>>
  /\ IF nothing_queued(nextbatch, nextcbs)
       THEN /\ running' = None
            /\ runs' = runs
            /\ chans' = cs
            /\ batchOf' = bo
       ELSE run(nextbatch, cs, bo)

done(err, cbs, batch, pcs, r, cs, bo) ==
  LET nextcbs   == drain_collect(pcs)
      nextbatch == drain_collect(batch)
  IN
  /\ invoked' = invoked \o
        [i \in 1..Len(cbs) |->
           [sub |-> cbs[i].sub, result |-> err, run |-> Len(runs), recv |-> r]]
  /\ processed' = Append(processed, [run |-> Len(runs), recv |-> r])
  /\ callbacks' = nextcbs
  /\ pending_callbacks' = <<>>
  /\ pending_batch' = <<>>
  /\ IF nothing_queued(nextbatch, nextcbs)
       THEN /\ running' = None
            /\ runs' = runs
            /\ chans' = cs
            /\ batchOf' = bo
       ELSE run(nextbatch, cs, bo)

(* ---- Batcher::appendcb ---- *)
appendcb(val, cb) ==
  LET id  == Len(subs) + 1
      ent == [fn |-> cb, sub |-> id]
      bo  == Append(batchOf, 0)
  IN
  /\ pc = "live"
  /\ Len(subs) < MaxSubs
  /\ subs' = Append(subs, [val |-> val])
  /\ pc' = pc
  /\ IF is_some(running)
       THEN LET pcs   == IF Len(pending_batch) = 0 THEN <<>> ELSE pending_callbacks
                batch == extend(pending_batch, val)
                cbs   == push(callbacks, ent)
                r     == try_recv(chans[running])
            IN
            IF is_ok(r)
              THEN done("Ok", cbs, batch, pcs, r,
                        [chans EXCEPT ![running] = closed(@)], bo)
              ELSE /\ pending_callbacks' = pcs
                   /\ pending_batch' = batch
                   /\ callbacks' = cbs
                   /\ batchOf' = bo
                   /\ UNCHANGED <<running, chans, runs, invoked, processed>>
       ELSE /\ callbacks' = <<ent>>
            /\ run(val, chans, bo)
            /\ UNCHANGED <<pending_batch, pending_callbacks, invoked, processed>>

(* ---- Batcher::append: appendcb with the closure |_|{} ---- *)
append(val) == appendcb(val, "noop")

(* ---- impl Drop for Batcher: the owner lets the batcher go ---- *)
\* self.drop() returns at once when idle, else blocks in rx.recv()
Drop_drop ==
  /\ pc = "live"
  /\ pc' = IF is_some(running) THEN "recv" ELSE "dropped"
  /\ UNCHANGED <<running, pending_batch, pending_callbacks, callbacks, chans,
                 runs, subs, batchOf, invoked, processed>>

(* ---- Batcher::drop, from the return of rx.recv() on ---- *)
drop ==
  /\ pc = "recv"
  /\ is_some(running)
  /\ recv_ready(chans[running])
  /\ done("Ok", callbacks, pending_batch, pending_callbacks, recv(chans[running]),
          [chans EXCEPT ![running] = closed(@)], batchOf)
  /\ pc' = "returned"
  /\ subs' = subs

\* end of Drop::drop: the fields are destroyed, the Receiver of a run started
\* by drop's done with them (running keeps naming that run)
drop_in_place ==
  /\ pc = "returned"
  /\ pc' = "dropped"
  /\ chans' = IF is_some(running) THEN [chans EXCEPT ![running] = closed(@)] ELSE chans
  /\ UNCHANGED <<running, pending_batch, pending_callbacks, callbacks,
                 runs, subs, batchOf, invoked, processed>>

(* ---- the run function's side of the channel of run k ---- *)
\* Sender::send: Ok and the message is queued while the Receiver lives,
\* Err(SendError) and nothing queued once the Receiver is gone
send(k) ==
  /\ chans[k].tx
  /\ IF chans[k].rx
       THEN /\ chans[k].msgs < MaxSend
            /\ chans' = [chans EXCEPT ![k].msgs = @ + 1]
       ELSE /\ ~chans[k].refused
            /\ chans' = [chans EXCEPT ![k].refused = TRUE]
  /\ UNCHANGED <<running, pending_batch, pending_callbacks, callbacks, pc,
                 runs, subs, batchOf, invoked, processed>>

\* the Sender is dropped; with the Receiver gone nobody can tell, so only
\* the Sender of a channel that is still read is followed
discard(k) ==
  /\ chans[k].tx
  /\ chans[k].rx
  /\ chans' = [chans EXCEPT ![k].tx = FALSE]
  /\ UNCHANGED <<running, pending_batch, pending_callbacks, callbacks, pc,
                 runs, subs, batchOf, invoked, processed>>

Next ==
  \/ \E val \in Vals(Len(subs) + 1) : append(val)
  \/ \E val \in Vals(Len(subs) + 1), cb \in Callbacks : appendcb(val, cb)
  \/ Drop_drop
  \/ drop
  \/ drop_in_place
  \/ \E k \in 1..Len(chans) : send(k)
  \/ \E k \in 1..Len(chans) : discard(k)

Spec == Init /\ [][Next]_vars

\* a thread blocked in rx.recv() is woken, and goes on, once a message is
\* queued or the last Sender is gone
LiveSpec == Spec /\ WF_vars(drop)

(***************************************************************************)
(* Properties                                                              *)
(***************************************************************************)

RECURSIVE Flatten(_)
Flatten(ss) == IF ss = <<>> THEN <<>> ELSE Head(ss) \o Flatten(Tail(ss))

\* the items of the submissions i..Len(subs) that went to run k, in submission order
RECURSIVE Coalesced(_, _)
Coalesced(i, k) ==
  IF i > Len(subs) THEN <<>>
  ELSE (IF batchOf[i] = k THEN subs[i].val ELSE <<>>) \o Coalesced(i + 1, k)

SubmittedVals == [i \in 1..Len(subs) |-> subs[i].val]

Invocations(i) == Cardinality({j \in 1..Len(invoked) : invoked[j].sub = i})

\* the step is an append/appendcb call, and the submission it makes
Submitting == Len(subs') = Len(subs) + 1

Submitted == subs'[Len(subs')]

\* the step calls done
DoneCalled == Len(processed') = Len(processed) + 1

DropReturned == pc \in {"returned", "dropped"}

\* C1: every batch handed to the run function is exactly the concatenation,
\* in submission order, of the submissions made since the previous run
\* invocation (those made while the previous batch was in flight).
C1_Coalescing ==
  \A k \in 1..Len(runs) : runs[k] = Coalesced(1, k)

\* one submission runs at once, two more are queued while it is in flight;
\* drop hands both, concatenated, to the second run and there is no third run
C1_Witness ==
  /\ DropReturned
  /\ Len(subs) = 3
  /\ batchOf = <<1, 2, 2>>
  /\ subs[2].val # <<>> /\ subs[3].val # <<>>
  /\ runs = <<subs[1].val, subs[2].val \o subs[3].val>>

C3_CallbackWithOwnBatch ==
  \A j \in 1..Len(invoked) :
     subs[invoked[j].sub].val # <<>> => batchOf[invoked[j].sub] = invoked[j].run

\* C4: no callback is ever invoked twice, and once drop has returned every
\* submitted callback has been invoked exactly once.
C4_DeliveryCount ==
  /\ \A i \in 1..Len(subs) : Invocations(i) <= 1
  /\ DropReturned => \A i \in 1..Len(subs) : Invocations(i) = 1

C4_Witness ==
  /\ DropReturned
  /\ Len(subs) = 3
  /\ Len(invoked) = 3
  /\ Len(processed) >= 2

\* C5: the batches dispatched so far followed by pending_batch are the
\* submitted items in submission order; once drop has returned nothing is
\* pending, so the dispatched batches are all the submitted items.
C5_NoItemLostOrDuplicated ==
  /\ Flatten(runs) \o pending_batch = Flatten(SubmittedVals)
  /\ DropReturned => Flatten(runs) = Flatten(SubmittedVals)

C5_Witness ==
  /\ DropReturned
  /\ Len(subs) = 3
  /\ \A i \in 1..Len(subs) : subs[i].val # <<>>
  /\ Len(runs) >= 2

C7_FirstSubmission ==
  [][(Submitting /\ ~is_some(running)) =>
       /\ runs' = Append(runs, Submitted.val)
       /\ is_some(running')
       /\ Len(callbacks') = 1
       /\ callbacks'[1].sub = Len(subs')]_vars

\* the third submission found a batcher that ran before and was idle again
C7_Witness ==
  /\ pc = "live"
  /\ Len(subs) = 3
  /\ Len(processed) = 1
  /\ Len(runs) = 2
  /\ subs[3].val # <<>>
  /\ runs[2] = subs[3].val
  /\ callbacks = << [fn |-> "cbA", sub |-> 3] >>
  /\ pending_batch = <<>>

\* C8 (as claimed): a submission on a running batcher never invokes the run
\* function and only appends its items to pending_batch.
C8_RunningOnlyQueues ==
  [][(Submitting /\ is_some(running)) =>
       /\ runs' = runs
       /\ pending_batch' = pending_batch \o Submitted.val]_vars

\* C8 (amended): so it is when no completion message waits in the channel.
C8_RunningOnlyQueuesUnsignalled ==
  [][(Submitting /\ is_some(running) /\ chans[running].msgs = 0) =>
       /\ runs' = runs
       /\ ~DoneCalled
       /\ pending_batch' = pending_batch \o Submitted.val]_vars

\* two submissions queued behind a first run whose Sender is already gone
C8_Witness ==
  /\ Len(subs) = 3
  /\ Len(runs) = 1
  /\ running = 1
  /\ ~chans[1].tx
  /\ chans[1].msgs = 0
  /\ subs[2].val # <<>> /\ subs[3].val # <<>>
  /\ pending_batch = subs[2].val \o subs[3].val

\* the items done finds queued: pending_batch, extended by the submission
\* that polls the channel
QueuedAtDone ==
  IF Submitting THEN pending_batch \o Submitted.val ELSE pending_batch

\* C9: when done finds items queued it hands exactly them to the run function
\* within the same call, and the batcher is running that new run afterwards.
C9_ChainedCompletion ==
  [][(DoneCalled /\ QueuedAtDone # <<>>) =>
       /\ runs' = Append(runs, QueuedAtDone)
       /\ running' = Len(runs')
       /\ is_some(running')
       /\ pending_batch' = <<>>]_vars

\* items queued behind the first run, whose completion the third submission
\* finds: its done starts the second run with all of them
C9_Witness ==
  /\ pc = "live"
  /\ Len(subs) = 3
  /\ Len(processed) = 1
  /\ running = 2
  /\ subs[2].val # <<>>
  /\ runs = <<subs[1].val, subs[2].val \o subs[3].val>>

\* C10: when done finds no items and no callbacks queued the batcher goes
\* idle and the run function is not invoked.
C10_EmptyDrain ==
  [][(DoneCalled /\ QueuedAtDone = <<>> /\ pending_callbacks = <<>>) =>
       /\ running' = None
       /\ runs' = runs
       /\ chans' = [chans EXCEPT ![running] = closed(@)]]_vars

\* drop processed the second run's completion with nothing queued
C10_Witness ==
  /\ pc = "returned"
  /\ running = None
  /\ Len(runs) = 2
  /\ Len(processed) = 2

\* the owner is inside drop, blocked in rx.recv()
InDrop == pc = "recv"

\* C11 (as claimed): while no completion message was sent on the in-flight
\* run's channel, drop invokes no callback, dispatches nothing and does not
\* return.
C11_DropWaitsForSignal ==
  [][(InDrop /\ chans[running].msgs = 0) =>
       /\ invoked' = invoked
       /\ runs' = runs
       /\ pc' = "recv"]_vars

\* C11 (amended): so it is while no completion message was sent and the run
\* function still holds its Sender; and entering drop itself invokes and
\* dispatches nothing.
C11_DropWaitsForSignalOrDisconnect ==
  [][/\ (InDrop /\ chans[running].msgs = 0 /\ chans[running].tx) =>
          /\ invoked' = invoked
          /\ runs' = runs
          /\ pending_batch' = pending_batch
          /\ pc' = "recv"
     /\ (pc = "live" /\ pc' = "recv") =>
          /\ invoked' = invoked
          /\ runs' = runs
          /\ pending_batch' = pending_batch]_vars

\* drop is blocked behind a run that has not signalled, with a callback to
\* notify and items to dispatch
C11_Witness ==
  /\ InDrop
  /\ chans[running].msgs = 0
  /\ chans[running].tx
  /\ callbacks # <<>>
  /\ pending_batch # <<>>

\* C12 (as claimed): a second completion signal for the same batch is never
\* accepted: send returns Ok for at most one message per run's channel, so no
\* channel ever holds two.
C12_SecondSignalRejected ==
  \A k \in 1..Len(chans) : chans[k].msgs <= 1

\* the callbacks the done that completed run i invoked, and the submissions
\* whose items made up run i's batch (submissions that brought items only)
NotifiedBy(i) ==
  {j \in 1..Len(invoked) : invoked[j].run = i /\ subs[invoked[j].sub].val # <<>>}

ContributorsOf(i) ==
  {n \in 1..Len(subs) : batchOf[n] = i /\ subs[n].val # <<>>}

\* C13 (as claimed): when the completion of a run is processed, as many
\* callbacks are active (and invoked) as submissions contributed to its batch.
C13_CallbackPerContributor ==
  \A i \in 1..Len(processed) :
     Cardinality(NotifiedBy(i)) = Cardinality(ContributorsOf(i))

Idle == running = None

\* C14: whenever the batcher is idle, the active callbacks, the pending batch
\* and the pending callbacks are all empty.
C14_IdleInvariant ==
  Idle => /\ callbacks = <<>>
          /\ pending_batch = <<>>
          /\ pending_callbacks = <<>>

\* idle again after a run that had items queued behind it and three
\* callbacks to notify
C14_Witness ==
  /\ Idle
  /\ pc = "live"
  /\ Len(runs) = 2
  /\ Len(processed) = 2
  /\ Len(invoked) = 3

\* C15: the callbacks one done notifies are invoked in the order of their
\* submissions, and all with the same result.
C15_CallbackOrder ==
  \A i, j \in 1..Len(invoked) :
     (i < j /\ invoked[i].run = invoked[j].run) =>
        /\ invoked[i].sub < invoked[j].sub
        /\ invoked[i].result = invoked[j].result

\* one done notified the callbacks of three submissions
C15_Witness ==
  /\ Len(invoked) = 3
  /\ \A i \in 1..3 : invoked[i].run = 1

\* a submission can be made: the owner still has the batcher (and, in the
\* model, submissions are left)
CanSubmit == pc = "live" /\ Len(subs) < MaxSubs

\* C16: a submission is enabled whenever the owner has the batcher, whatever
\* the run function did or did not do with its Sender; made while a run is in
\* flight with no completion message waiting, it returns having only queued:
\* the same run is still in flight and its channel untouched.
C16_SubmitNeverWaits ==
  /\ [](CanSubmit => ENABLED (\E val \in Vals(Len(subs) + 1) : append(val)))
  /\ [][(Submitting /\ is_some(running) /\ chans[running].msgs = 0) =>
          /\ pc' = "live"
          /\ running' = running
          /\ chans' = chans
          /\ processed' = processed
          /\ Len(callbacks') = Len(callbacks) + 1]_vars

\* a submission returned while the in-flight run holds its Sender and has
\* sent nothing
C16_Witness ==
  /\ pc = "live"
  /\ Len(subs) = 2
  /\ running = 1
  /\ chans[1].tx /\ chans[1].msgs = 0
  /\ Len(callbacks) = 2
  /\ pending_batch = subs[2].val
  /\ subs[2].val # <<>>

\* C17: once the in-flight run's Sender has sent or is gone, the drop blocked
\* on it returns; while the Sender is alive and has sent nothing, drop does
\* not return and the batcher stays running with its pending items
\* undispatched.
C17_DropTerminates ==
  /\ (InDrop /\ (chans[running].msgs > 0 \/ ~chans[running].tx)) ~> DropReturned
  /\ [][(InDrop /\ chans[running].msgs = 0 /\ chans[running].tx) =>
          /\ InDrop'
          /\ running' = running
          /\ pending_batch' = pending_batch
          /\ runs' = runs]_vars

\* drop returned from a wait that the disconnection ended, items dispatched
C17_Witness ==
  /\ DropReturned
  /\ Len(processed) = 1
  /\ processed[1].recv = "Err"
  /\ Len(runs) = 2

\* the in-flight run's Sender is gone and it sent nothing
Abandoned == is_some(running) /\ ~chans[running].tx /\ chans[running].msgs = 0

\* C18: while the in-flight run's Sender is gone without a message, a
\* submission only queues (done is not called, no run starts), whereas the
\* blocked drop goes on as after a success: it invokes every active callback
\* with Ok, in order, hands the pending batch (if any) to the run function
\* once and returns with that run in flight, its channel still unsignalled.
C18_AbandonedSender ==
  [][/\ (Submitting /\ Abandoned) =>
          /\ ~DoneCalled
          /\ runs' = runs
          /\ running' = running
          /\ pending_batch' = pending_batch \o Submitted.val
     /\ (InDrop /\ Abandoned /\ ~InDrop') =>
          /\ pc' = "returned"
          /\ Len(invoked') = Len(invoked) + Len(callbacks)
          /\ \A i \in 1..Len(callbacks) :
                /\ invoked'[Len(invoked) + i].sub = callbacks[i].sub
                /\ invoked'[Len(invoked) + i].result = "Ok"
          /\ IF pending_batch # <<>>
               THEN /\ runs' = Append(runs, pending_batch)
                    /\ running' = Len(runs')
                    /\ chans'[running'] = channel
               ELSE /\ runs' = runs
                    /\ running' = None]_vars

\* two submissions were queued behind a run whose Sender was gone; drop
\* notified all three callbacks and returned with the second run in flight
C18_Witness ==
  /\ pc = "returned"
  /\ Len(subs) = 3
  /\ Len(processed) = 1
  /\ processed[1].recv = "Err"
  /\ Len(invoked) = 3
  /\ runs = <<subs[1].val, subs[2].val \o subs[3].val>>
  /\ subs[2].val # <<>> /\ subs[3].val # <<>>
  /\ running = 2
  /\ chans[2].msgs = 0

\* C19: a run's completion is only ever taken from that run's own channel,
\* which starts empty however many signals its predecessor's channel held;
\* once a run's completion was processed its channel is closed and takes no
\* more signals; so no run is completed twice and no more completions are
\* processed than runs were started.
C19_StaleSignalsHarmless ==
  /\ [](/\ Len(processed) <= Len(runs)
        /\ \A i, j \in 1..Len(processed) :
              (i # j) => (processed[i].run # processed[j].run)
        /\ \A k \in 1..Len(processed) :
              ~chans[k].rx /\ chans[k].msgs = 0)
  /\ [][/\ (Len(chans') > Len(chans)) =>
             /\ Len(chans') = Len(runs')
             /\ chans'[Len(chans')].msgs = 0
             /\ chans'[Len(chans')].rx
        /\ (\A k \in 1..Len(chans) :
               chans[k].rx \/ (chans'[k].msgs = 0 /\ ~chans'[k].rx))
        /\ (DoneCalled /\ processed'[Len(processed')].recv = "Ok") =>
             /\ processed'[Len(processed')].run = running
             /\ chans[running].msgs >= 1]_vars

\* a signal for the first batch, sent after it was processed, was refused
\* while the second batch is in flight; the second batch is not completed
C19_Witness ==
  /\ pc = "live"
  /\ Len(processed) = 1
  /\ running = 2
  /\ chans[1].refused
  /\ chans[2].msgs = 0
  /\ callbacks # <<>>

====
